---- MODULE Spec2Model ----
(***************************************************************************)
(* Model of the RabbitMQ Publisher and Consumer of vladzorgan/common       *)
(* (messaging/rabbitmq/publisher.go, messaging/rabbitmq/consumer.go).      *)
(*                                                                         *)
(* A broker connection is a number 1..MaxConns (0 is the nil reference);   *)
(* the channel opened on a connection carries the connection's number.     *)
(* Goroutines are tasks with a program counter.  A section of code that    *)
(* takes the mutex, touches only fields and releases it is one action      *)
(* guarded by the mutex being free; connect() and the publish call keep    *)
(* the mutex over a broker call and are split in two actions.              *)
(***************************************************************************)
EXTENDS Naturals, Integers, Sequences, FiniteSets

\* ---------------------------------------------------------------- bounds
\* Number of dials the broker accepts during one run.
MaxConns == 2
\* Number of handleDeliveries goroutines alive at once.
MaxLoops == 2
\* Number of messages routed to the queue during one run.
MaxMsgs == 2
\* Number of times the broker delivers one message.
MaxDeliveries == 3

\* ------------------------------------------------------ program constants
\* backoff := 1 * time.Second
InitialBackoff == 1
\* maxBackoff := 30 * time.Second
MaxBackoff == 30

Conns == 1..MaxConns
Loops == 1..MaxLoops
Msgs == 1..MaxMsgs
\* Routing keys and binding patterns are sequences of words ("region.created").
BindingKeys == {<<"region", "*">>, <<"region", "created">>}
RoutingKeys == {<<"region", "created">>, <<"city", "updated">>}
\* Two application handlers; 0 stands for "no entry" in Consumer.handlers.
Handlers == {1, 2}
\* A JSON EventEnvelope, or bytes json.Unmarshal rejects.
Bodies == {"envelope", "poison"}
\* Reconnect goroutines past the guard of reconnect(): the guard admits one; the
\* second slot is there for the guard to have something to exclude.
RTasks == {1, 2}

VARIABLES
    \* ---- Publisher (publisher.go:32-41)
    p_url,           \* TRUE when rabbitmqURL # ""
    p_connection,    \* Publisher.connection (0 = nil)
    p_channel,       \* Publisher.channel (0 = nil)
    p_connected,     \* Publisher.connected
    p_reconnecting,  \* Publisher.reconnecting
    p_mu_w,          \* Publisher.mutex: the reconnect task holding the write lock in connect(), 0 = none
    p_mu_r,          \* Publisher.mutex: number of read locks held (the publish call)
    p_conn,          \* broker side: state of each connection the Publisher dialed
    p_wpc,           \* close-watcher goroutine of each connection
    p_rspawned,      \* reconnect goroutines started and not yet at the guard
    p_rpc,           \* reconnect goroutines past the guard: program counter
    p_rbackoff,      \* reconnect goroutines: local variable backoff (seconds)
    p_closed,        \* history: Publisher.Close() has returned
    pub_pc,          \* the PublishEventWithConfig call in progress
    pub_enc,         \* whether the payload of the last call is encodable
    pub_result,      \* what the last call returned
    \* ---- Consumer (consumer.go:18-31)
    c_url,           \* TRUE when rabbitmqURL # ""
    c_connection,    \* Consumer.connection (0 = nil)
    c_channel,       \* Consumer.channel (0 = nil)
    c_connected,     \* Consumer.connected
    c_reconnecting,  \* Consumer.reconnecting
    c_stopped,       \* Consumer.stopped
    c_stopChan,      \* Consumer.stopChan: "open", "closed", "panic" (closed twice)
    handlers,        \* Consumer.handlers: binding key -> handler (0 = no entry)
    c_mu_w,          \* Consumer.mutex: the reconnect task holding the write lock in connect(), 0 = none
    c_conn,          \* broker side: state of each connection the Consumer dialed
                     \* ("chanerr": open, its channel closed by a channel exception)
    c_wpc,           \* close-watcher goroutine of each connection
    c_rspawned,      \* reconnect goroutines started and not yet at the guard
    c_rpc,           \* reconnect goroutines past the guard: program counter
    c_rbackoff,      \* reconnect goroutines: local variable backoff (seconds)
    c_bound,         \* the keys QueueBind was issued for on the channel c.channel
    q_bindings,      \* broker side: the bindings of the (durable) queue
    lpc,             \* handleDeliveries goroutines: program counter
    lch,             \* handleDeliveries goroutines: the channel Consume was called on
    lcur,            \* handleDeliveries goroutines: the delivery taken (0 = none yet)
    lh,              \* handleDeliveries goroutines: local variable handler (0 = !ok)
    llog,            \* history: what the loop did with the delivery it took last
    m_stat,          \* broker side: state of each message
    m_rk,            \* routing key of each message
    m_body,          \* body of each message
    m_count,         \* number of times each message was delivered
    m_rets,          \* history: what the handler returned for each message, in order
    \* ---- one event from PublishEvent to the handler
    rt_pc,           \* "off", "start", "wire" (published), "handed" (handler called)
    rt_key,          \* routingKey given to PublishEvent
    rt_payload,      \* payload given to PublishEvent
    rt_wire,         \* the message body: the JSON of the EventEnvelope
    rt_evt,          \* the "event_type" value of the handler's context
    rt_out           \* the bytes given to the handler, as the JSON value they hold

pvars == <<p_url, p_connection, p_channel, p_connected, p_reconnecting, p_mu_w,
           p_mu_r, p_conn, p_wpc, p_rspawned, p_rpc, p_rbackoff, p_closed, pub_pc,
           pub_enc, pub_result>>

cfields == <<c_url, c_connection, c_channel, c_connected, c_reconnecting, c_stopped,
             c_stopChan>>
cbroker == <<c_conn, c_bound, q_bindings>>
ctasks == <<c_wpc, c_rspawned, c_rpc, c_rbackoff, c_mu_w>>
cloops == <<lpc, lch, lcur, lh, llog>>
rtvars == <<rt_pc, rt_key, rt_payload, rt_wire, rt_evt, rt_out>>
cmsgs == <<m_stat, m_rk, m_body, m_count, m_rets, rtvars>>
cvars == <<cfields, handlers, cbroker, ctasks, cloops, cmsgs>>

vars == <<pvars, cvars>>

\* ------------------------------------------------------------- helpers
\* The smallest element of a non-empty set of numbers.
MinOf(S) == CHOOSE x \in S : \A y \in S : x <= y

\* backoff *= 2; if backoff > maxBackoff { backoff = maxBackoff }
NextBackoff(b) == IF b * 2 > MaxBackoff THEN MaxBackoff ELSE b * 2

\* Outcomes of the broker calls of connect(): all succeed, the dial fails, or a
\* call after the dial fails (the code then closes what it opened).
ConnectOutcomes == {"ok", "dial_failed", "declare_failed"}

ConnectSucceeds_IgnoreDeclare(outcome) == outcome # "dial_failed"

\* connect() reaches the assignment of the fields when no call returned an
\* error: every "if err != nil" before it returns.
ConnectSucceeds(outcome) == outcome = "ok"

\* ============================================================ Publisher

P_FreeConns == {c \in Conns : p_conn[c] = "unused"}

P_FreeTasks == {t \in RTasks : p_rpc[t] = "none"}

P_InitLocals ==
    /\ p_mu_w = 0 /\ p_mu_r = 0
    /\ p_reconnecting = FALSE
    /\ p_closed = FALSE
    /\ pub_pc = "idle" /\ pub_enc = TRUE /\ pub_result = "none"
    /\ p_rbackoff = [t \in RTasks |-> 0]

\* NewPublisher with rabbitmqURL == "": no connection is ever attempted.
P_InitNoUrl ==
    /\ P_InitLocals
    /\ p_url = FALSE
    /\ p_connection = 0 /\ p_channel = 0 /\ p_connected = FALSE
    /\ p_conn = [c \in Conns |-> "unused"]
    /\ p_wpc = [c \in Conns |-> "none"]
    /\ p_rspawned = 0
    /\ p_rpc = [t \in RTasks |-> "none"]

\* NewPublisher with a URL: connect() succeeded, or it failed (at the dial, or
\* later with the connection closed again) and go publisher.reconnect ran.
P_InitUrl ==
    /\ P_InitLocals
    /\ p_url = TRUE
    /\ \/ /\ p_connection = 1 /\ p_channel = 1 /\ p_connected = TRUE
          /\ p_conn = [c \in Conns |-> IF c = 1 THEN "open" ELSE "unused"]
          /\ p_wpc = [c \in Conns |-> IF c = 1 THEN "wait" ELSE "none"]
          /\ p_rspawned = 0
          /\ p_rpc = [t \in RTasks |-> "none"]
       \/ /\ p_connection = 0 /\ p_channel = 0 /\ p_connected = FALSE
          /\ \/ p_conn = [c \in Conns |-> "unused"]
             \/ p_conn = [c \in Conns |-> IF c = 1 THEN "closed" ELSE "unused"]
          /\ p_wpc = [c \in Conns |-> "none"]
          /\ p_rspawned = 1
          /\ p_rpc = [t \in RTasks |-> "none"]

\* The state NewPublisher returns.
P_Init == P_InitNoUrl \/ P_InitUrl

\* The broker or the network closes an open connection.
P_BrokerDrop(c) ==
    /\ UNCHANGED cvars
    /\ p_conn[c] = "open"
    /\ p_conn' = [p_conn EXCEPT ![c] = "lost"]
    /\ UNCHANGED <<p_url, p_connection, p_channel, p_connected, p_reconnecting,
                   p_mu_w, p_mu_r, p_wpc, p_rspawned, p_rpc, p_rbackoff, p_closed, pub_pc,
                   pub_enc, pub_result>>

\* The goroutine of connect(): err := <-closeChan; connected = false under the
\* lock; go p.reconnect(rabbitmqURL).  The receive returns when the connection
\* was closed by the broker (an error) or by the client (the channel is closed
\* and the receive yields nil).
P_Watcher(c) ==
    /\ UNCHANGED cvars
    /\ p_wpc[c] = "wait"
    /\ p_conn[c] \in {"lost", "closed"}
    /\ p_mu_w = 0 /\ p_mu_r = 0
    /\ p_connected' = FALSE
    /\ p_wpc' = [p_wpc EXCEPT ![c] = "done"]
    /\ p_rspawned' = p_rspawned + 1
    /\ UNCHANGED <<p_url, p_connection, p_channel, p_reconnecting, p_mu_w, p_mu_r,
                   p_conn, p_rpc, p_rbackoff, p_closed, pub_pc, pub_enc, pub_result>>

\* reconnect(): if p.reconnecting { return }
P_GuardReturns == p_reconnecting

\* reconnect(), the guard: return when p.reconnecting, else set it.
P_ReconnectGuard ==
    /\ UNCHANGED cvars
    /\ p_rspawned > 0
    /\ p_mu_w = 0 /\ p_mu_r = 0
    /\ p_rspawned' = p_rspawned - 1
    /\ IF P_GuardReturns
       THEN UNCHANGED <<p_reconnecting, p_rpc, p_rbackoff>>
       ELSE /\ P_FreeTasks # {}
            /\ p_reconnecting' = TRUE
            /\ p_rpc' = [p_rpc EXCEPT ![MinOf(P_FreeTasks)] = "sleep"]
            /\ p_rbackoff' = [p_rbackoff EXCEPT ![MinOf(P_FreeTasks)] = InitialBackoff]
    /\ UNCHANGED <<p_url, p_connection, p_channel, p_connected, p_mu_w, p_mu_r,
                   p_conn, p_wpc, p_closed, pub_pc, pub_enc, pub_result>>

\* reconnect(): time.Sleep(backoff) ends and connect() takes the write lock;
\* connect() returns nil at once when p.connected.
P_ReconnectLock(t) ==
    /\ UNCHANGED cvars
    /\ UNCHANGED p_rspawned
    /\ p_rpc[t] = "sleep"
    /\ p_mu_w = 0 /\ p_mu_r = 0
    /\ IF p_connected
       THEN /\ p_rpc' = [p_rpc EXCEPT ![t] = "defer"]
            /\ UNCHANGED p_mu_w
       ELSE /\ p_rpc' = [p_rpc EXCEPT ![t] = "dial"]
            /\ p_mu_w' = t
    /\ UNCHANGED <<p_url, p_connection, p_channel, p_connected, p_reconnecting,
                   p_mu_r, p_conn, p_wpc, p_rbackoff, p_closed, pub_pc, pub_enc,
                   pub_result>>

\* connect() under the write lock: amqp.Dial, connection.Channel,
\* ExchangeDeclare, NotifyClose, the watcher goroutine, the three fields.
P_ConnectDial(t, outcome) ==
    /\ UNCHANGED cvars
    /\ UNCHANGED p_rspawned
    /\ p_rpc[t] = "dial"
    /\ p_mu_w = t
    /\ p_mu_w' = 0
    /\ IF ConnectSucceeds(outcome) /\ P_FreeConns # {}
       THEN LET c == MinOf(P_FreeConns) IN
            /\ p_conn' = [p_conn EXCEPT ![c] = "open"]
            /\ p_wpc' = [p_wpc EXCEPT ![c] = "wait"]
            /\ p_connection' = c
            /\ p_channel' = c
            /\ p_connected' = TRUE
            /\ p_rpc' = [p_rpc EXCEPT ![t] = "defer"]
            /\ UNCHANGED p_rbackoff
       ELSE /\ IF outcome = "declare_failed" /\ P_FreeConns # {}
               THEN p_conn' = [p_conn EXCEPT ![MinOf(P_FreeConns)] = "closed"]
               ELSE UNCHANGED p_conn
            /\ p_rbackoff' = [p_rbackoff EXCEPT ![t] = NextBackoff(p_rbackoff[t])]
            /\ p_rpc' = [p_rpc EXCEPT ![t] = "sleep"]
            /\ UNCHANGED <<p_wpc, p_connection, p_channel, p_connected>>
    /\ UNCHANGED <<p_url, p_reconnecting, p_mu_r, p_closed, pub_pc, pub_enc,
                   pub_result>>

\* reconnect(), the deferred function: reconnecting = false.
P_ReconnectDefer(t) ==
    /\ UNCHANGED cvars
    /\ UNCHANGED p_rspawned
    /\ p_rpc[t] = "defer"
    /\ p_mu_w = 0 /\ p_mu_r = 0
    /\ p_reconnecting' = FALSE
    /\ p_rpc' = [p_rpc EXCEPT ![t] = "none"]
    /\ p_rbackoff' = [p_rbackoff EXCEPT ![t] = 0]
    /\ UNCHANGED <<p_url, p_connection, p_channel, p_connected, p_mu_w, p_mu_r,
                   p_conn, p_wpc, p_closed, pub_pc, pub_enc, pub_result>>

\* channel.Close() / connection.Close() of the client on connection c.
ClientClose(conn, c) ==
    IF c # 0 /\ conn[c] \in {"open", "chanerr"}
    THEN [conn EXCEPT ![c] = "closed"]
    ELSE conn

P_CloseKeepsChannel_No == FALSE

\* Publisher.Close(): p.channel.Close() is called and the field p.channel is
\* not assigned.
P_CloseKeepsChannel == TRUE

\* Publisher.Close()
P_Close ==
    /\ UNCHANGED cvars
    /\ p_mu_w = 0 /\ p_mu_r = 0
    /\ p_conn' = ClientClose(p_conn, p_connection)
    /\ p_channel' = IF P_CloseKeepsChannel THEN p_channel ELSE 0
    /\ p_connected' = FALSE
    /\ p_closed' = TRUE
    /\ UNCHANGED <<p_url, p_connection, p_reconnecting, p_mu_w, p_mu_r,
                   p_wpc, p_rspawned, p_rpc, p_rbackoff, pub_pc, pub_enc, pub_result>>

\* What channel.Publish returns on channel ch.
PublishOutcome(ch) ==
    IF ch = 0 THEN "panic"
    ELSE IF p_conn[ch] = "open" THEN "nil"
    ELSE "err_publish"

P_NoChannel_Unchecked == FALSE

\* PublishEventWithConfig: if p.channel == nil
P_NoChannel == p_channel = 0

\* PublishEventWithConfig, first part: the nil check under the read lock, the
\* envelope and json.Marshal.
P_PublishCheck(enc) ==
    /\ UNCHANGED cvars
    /\ pub_pc = "idle"
    /\ p_mu_w = 0
    /\ pub_enc' = enc
    /\ IF P_NoChannel
       THEN pub_result' = "nil" /\ pub_pc' = "idle"
       ELSE IF ~enc
            THEN pub_result' = "err_serialize" /\ pub_pc' = "idle"
            ELSE pub_result' = "none" /\ pub_pc' = "rlock"
    /\ UNCHANGED <<p_url, p_connection, p_channel, p_connected, p_reconnecting,
                   p_mu_w, p_mu_r, p_conn, p_wpc, p_rspawned, p_rpc, p_rbackoff, p_closed>>

\* PublishEventWithConfig: the second p.mutex.RLock().
P_PublishRLock ==
    /\ UNCHANGED cvars
    /\ pub_pc = "rlock"
    /\ p_mu_w = 0
    /\ p_mu_r' = p_mu_r + 1
    /\ pub_pc' = "send"
    /\ UNCHANGED <<p_url, p_connection, p_channel, p_connected, p_reconnecting,
                   p_mu_w, p_conn, p_wpc, p_rspawned, p_rpc, p_rbackoff, p_closed, pub_enc,
                   pub_result>>

\* PublishEventWithConfig: p.channel.Publish under the read lock, RUnlock, return.
P_PublishSend ==
    /\ UNCHANGED cvars
    /\ pub_pc = "send"
    /\ pub_result' = PublishOutcome(p_channel)
    /\ p_mu_r' = p_mu_r - 1
    /\ pub_pc' = "idle"
    /\ UNCHANGED <<p_url, p_connection, p_channel, p_connected, p_reconnecting,
                   p_mu_w, p_conn, p_wpc, p_rspawned, p_rpc, p_rbackoff, p_closed, pub_enc>>

P_Next ==
    \/ \E c \in Conns : P_BrokerDrop(c)
    \/ \E c \in Conns : P_Watcher(c)
    \/ P_ReconnectGuard
    \/ \E t \in RTasks : P_ReconnectLock(t)
    \/ \E t \in RTasks, o \in ConnectOutcomes : P_ConnectDial(t, o)
    \/ \E t \in RTasks : P_ReconnectDefer(t)
    \/ P_Close
    \/ \E enc \in BOOLEAN : P_PublishCheck(enc)
    \/ P_PublishRLock
    \/ P_PublishSend

\* ============================================================= Consumer

C_FreeConns == {c \in Conns : c_conn[c] = "unused"}
FreeLoops == {l \in Loops : lpc[l] = "none"}

\* The registered routing keys: for route := range c.handlers
Routes(h) == {k \in BindingKeys : h[k] # 0}

\* A channel accepts calls while its connection is open and no channel
\* exception has closed it.
ChanOpen(ch) == ch # 0 /\ c_conn[ch] = "open"

\* A failed QueueBind or Consume on an open channel is a channel exception: the
\* broker closes the channel and leaves the connection open.
ChannelException(conn, ch) ==
    IF ch # 0 /\ conn[ch] = "open" THEN [conn EXCEPT ![ch] = "chanerr"] ELSE conn

C_FreeTasks == {t \in RTasks : c_rpc[t] = "none"}

\* A topic exchange routes a message to a queue when a binding pattern matches
\* the routing key word by word: "*" is one word, "#" any number of words.
RECURSIVE TopicMatch(_, _)
TopicMatch(pat, key) ==
    IF pat = <<>> THEN key = <<>>
    ELSE IF Head(pat) = "#"
         THEN TopicMatch(Tail(pat), key) \/ (key # <<>> /\ TopicMatch(pat, Tail(key)))
         ELSE /\ key # <<>>
              /\ (Head(pat) = "*" \/ Head(pat) = Head(key))
              /\ TopicMatch(Tail(pat), Tail(key))

C_InitLocals ==
    /\ c_mu_w = 0
    /\ c_reconnecting = FALSE
    /\ c_stopped = FALSE
    /\ c_stopChan = "open"
    /\ handlers = [k \in BindingKeys |-> 0]
    /\ c_rbackoff = [t \in RTasks |-> 0]
    /\ c_bound = {}
    /\ q_bindings = {}
    /\ lpc = [l \in Loops |-> "none"]
    /\ lch = [l \in Loops |-> 0]
    /\ lcur = [l \in Loops |-> 0]
    /\ lh = [l \in Loops |-> 0]
    /\ llog = [l \in Loops |-> <<>>]
    /\ m_stat = [m \in Msgs |-> "unpublished"]
    /\ m_rk = [m \in Msgs |-> <<>>]
    /\ m_body = [m \in Msgs |-> "none"]
    /\ m_count = [m \in Msgs |-> 0]
    /\ m_rets = [m \in Msgs |-> <<>>]

\* NewConsumer with rabbitmqURL == "".
C_InitNoUrl ==
    /\ C_InitLocals
    /\ c_url = FALSE
    /\ c_connection = 0 /\ c_channel = 0 /\ c_connected = FALSE
    /\ c_conn = [c \in Conns |-> "unused"]
    /\ c_wpc = [c \in Conns |-> "none"]
    /\ c_rspawned = 0
    /\ c_rpc = [t \in RTasks |-> "none"]

\* NewConsumer with a URL: connect() succeeded, or it failed (at the dial, or
\* later with the connection closed again) and go consumer.reconnect ran.
C_InitUrl ==
    /\ C_InitLocals
    /\ c_url = TRUE
    /\ \/ /\ c_connection = 1 /\ c_channel = 1 /\ c_connected = TRUE
          /\ c_conn = [c \in Conns |-> IF c = 1 THEN "open" ELSE "unused"]
          /\ c_wpc = [c \in Conns |-> IF c = 1 THEN "wait" ELSE "none"]
          /\ c_rspawned = 0
          /\ c_rpc = [t \in RTasks |-> "none"]
       \/ /\ c_connection = 0 /\ c_channel = 0 /\ c_connected = FALSE
          /\ \/ c_conn = [c \in Conns |-> "unused"]
             \/ c_conn = [c \in Conns |-> IF c = 1 THEN "closed" ELSE "unused"]
          /\ c_wpc = [c \in Conns |-> "none"]
          /\ c_rspawned = 1
          /\ c_rpc = [t \in RTasks |-> "none"]

\* The state NewConsumer returns.
C_Init == C_InitNoUrl \/ C_InitUrl

\* The broker or the network closes an open connection.
C_BrokerDrop(c) ==
    /\ UNCHANGED pvars
    /\ c_conn[c] \in {"open", "chanerr"}
    /\ c_conn' = [c_conn EXCEPT ![c] = "lost"]
    /\ UNCHANGED <<cfields, handlers, c_bound, q_bindings, ctasks,
                   cloops, cmsgs>>

\* The goroutine of connect(), case err := <-closeChan: connected = false
\* under the lock; go c.reconnect(rabbitmqURL, options).
C_WatcherClosed(c) ==
    /\ UNCHANGED pvars
    /\ c_wpc[c] = "wait"
    /\ c_conn[c] \in {"lost", "closed"}
    /\ c_mu_w = 0
    /\ c_connected' = FALSE
    /\ c_wpc' = [c_wpc EXCEPT ![c] = "done"]
    /\ c_rspawned' = c_rspawned + 1
    /\ UNCHANGED <<c_url, c_connection, c_channel, c_reconnecting, c_stopped, c_stopChan,
                   handlers, cbroker, c_rpc, c_rbackoff, c_mu_w, cloops, cmsgs>>

\* The goroutine of connect(), case <-c.stopChan: close c.channel and
\* c.connection (the fields as they are now), connected = false.
C_WatcherStopped(c) ==
    /\ UNCHANGED pvars
    /\ c_wpc[c] = "wait"
    /\ c_stopped
    /\ c_mu_w = 0
    /\ c_conn' = ClientClose(c_conn, c_connection)
    /\ c_connected' = FALSE
    /\ c_wpc' = [c_wpc EXCEPT ![c] = "done"]
    /\ UNCHANGED <<c_url, c_connection, c_channel, c_reconnecting, c_stopped, c_stopChan,
                   handlers, c_bound, q_bindings, c_rspawned, c_rpc, c_rbackoff,
                   c_mu_w, cloops, cmsgs>>

C_GuardReturns_StoppedOnly == c_stopped

\* reconnect(): if c.reconnecting || c.stopped { return }
C_GuardReturns == c_reconnecting \/ c_stopped

\* reconnect(), the guard: return when c.reconnecting || c.stopped, else set
\* c.reconnecting.
C_ReconnectGuard ==
    /\ UNCHANGED pvars
    /\ c_rspawned > 0
    /\ c_mu_w = 0
    /\ c_rspawned' = c_rspawned - 1
    /\ IF C_GuardReturns
       THEN UNCHANGED <<c_reconnecting, c_rpc, c_rbackoff>>
       ELSE /\ C_FreeTasks # {}
            /\ c_reconnecting' = TRUE
            /\ c_rpc' = [c_rpc EXCEPT ![MinOf(C_FreeTasks)] = "check"]
            /\ c_rbackoff' = [c_rbackoff EXCEPT ![MinOf(C_FreeTasks)] = InitialBackoff]
    /\ UNCHANGED <<c_url, c_connection, c_channel, c_connected, c_stopped, c_stopChan,
                   handlers, cbroker, c_wpc, c_mu_w, cloops, cmsgs>>

C_LoopStops_Never == FALSE

\* reconnect(), top of the loop: stopped := c.stopped; if stopped { return }
C_LoopStops == c_stopped

\* reconnect(), top of the loop: read c.stopped under the read lock; return
\* when stopped, else start time.Sleep(backoff).
C_ReconnectCheck(t) ==
    /\ UNCHANGED pvars
    /\ UNCHANGED c_rspawned
    /\ c_rpc[t] = "check"
    /\ c_mu_w = 0
    /\ c_rpc' = [c_rpc EXCEPT ![t] = IF C_LoopStops THEN "defer" ELSE "sleep"]
    /\ UNCHANGED <<cfields, handlers, cbroker, c_wpc, c_rbackoff, c_mu_w, cloops,
                   cmsgs>>

\* reconnect(): time.Sleep(backoff) ends and connect() takes the write lock;
\* connect() returns nil at once when c.connected.
C_ReconnectLock(t) ==
    /\ UNCHANGED pvars
    /\ UNCHANGED c_rspawned
    /\ c_rpc[t] = "sleep"
    /\ c_mu_w = 0
    /\ IF c_connected
       THEN /\ c_rpc' = [c_rpc EXCEPT ![t] = "resub"]
            /\ UNCHANGED c_mu_w
       ELSE /\ c_rpc' = [c_rpc EXCEPT ![t] = "dial"]
            /\ c_mu_w' = t
    /\ UNCHANGED <<cfields, handlers, cbroker, c_wpc, c_rbackoff, cloops, cmsgs>>

\* connect() under the write lock: amqp.Dial, connection.Channel, Qos,
\* ExchangeDeclare, QueueDeclare, NotifyClose, the watcher goroutine, the
\* three fields.
C_ConnectDial(t, outcome) ==
    /\ UNCHANGED pvars
    /\ UNCHANGED c_rspawned
    /\ c_rpc[t] = "dial"
    /\ c_mu_w = t
    /\ c_mu_w' = 0
    /\ IF ConnectSucceeds(outcome) /\ C_FreeConns # {}
       THEN LET c == MinOf(C_FreeConns) IN
            /\ c_conn' = [c_conn EXCEPT ![c] = "open"]
            /\ c_wpc' = [c_wpc EXCEPT ![c] = "wait"]
            /\ c_connection' = c
            /\ c_channel' = c
            /\ c_connected' = TRUE
            /\ c_bound' = {}
            /\ c_rpc' = [c_rpc EXCEPT ![t] = "resub"]
            /\ UNCHANGED c_rbackoff
       ELSE /\ IF outcome = "declare_failed" /\ C_FreeConns # {}
               THEN c_conn' = [c_conn EXCEPT ![MinOf(C_FreeConns)] = "closed"]
               ELSE UNCHANGED c_conn
            /\ c_rbackoff' = [c_rbackoff EXCEPT ![t] = NextBackoff(c_rbackoff[t])]
            /\ c_rpc' = [c_rpc EXCEPT ![t] = "check"]
            /\ UNCHANGED <<c_wpc, c_connection, c_channel, c_connected, c_bound>>
    /\ UNCHANGED <<c_url, c_reconnecting, c_stopped, c_stopChan,
                   handlers, q_bindings, cloops,
                   cmsgs>>

\* reconnect(), after resubscribe() returned an error: connected = false under
\* the lock; continue.
C_ResubscribeFailed(t) ==
    /\ UNCHANGED pvars
    /\ UNCHANGED c_rspawned
    /\ c_rpc[t] = "resubfail"
    /\ c_mu_w = 0
    /\ c_connected' = FALSE
    /\ c_rpc' = [c_rpc EXCEPT ![t] = "check"]
    /\ UNCHANGED <<c_url, c_connection, c_channel, c_reconnecting, c_stopped, c_stopChan,
                   handlers, cbroker, c_wpc, c_rbackoff, c_mu_w, cloops, cmsgs>>

\* reconnect(), the deferred function: reconnecting = false.
C_ReconnectDefer(t) ==
    /\ UNCHANGED pvars
    /\ UNCHANGED c_rspawned
    /\ c_rpc[t] = "defer"
    /\ c_mu_w = 0
    /\ c_reconnecting' = FALSE
    /\ c_rpc' = [c_rpc EXCEPT ![t] = "none"]
    /\ c_rbackoff' = [c_rbackoff EXCEPT ![t] = 0]
    /\ UNCHANGED <<c_url, c_connection, c_channel, c_connected, c_stopped, c_stopChan,
                   handlers, cbroker, c_wpc, c_mu_w, cloops, cmsgs>>

C_CloseReturns_Never == FALSE

\* Consumer.Close(): if c.stopped { return }
C_CloseReturns == c_stopped

C_CloseConnected_Kept == c_connected

\* Consumer.Close(): c.connected = false
C_CloseConnected == FALSE

\* Consumer.Close(), under the write lock: nothing when stopped; else
\* stopped = true, close(stopChan) (closing a closed channel panics), close and
\* nil the channel and the connection, connected = false.
C_Close ==
    /\ UNCHANGED pvars
    /\ c_mu_w = 0
    /\ IF C_CloseReturns
       THEN UNCHANGED cvars
       ELSE /\ c_stopped' = TRUE
            /\ c_stopChan' = IF c_stopChan = "open" THEN "closed" ELSE "panic"
            /\ c_conn' = ClientClose(c_conn, c_connection)
            /\ c_channel' = 0
            /\ c_connection' = 0
            /\ c_connected' = C_CloseConnected
            /\ c_bound' = {}
            /\ UNCHANGED <<c_url, c_reconnecting, handlers, q_bindings, ctasks,
                           cloops, cmsgs>>

\* go c.handleDeliveries(deliveries) after a successful Consume on channel ch.
StartLoop(ch) ==
    LET l == MinOf(FreeLoops) IN
    /\ lpc' = [lpc EXCEPT ![l] = "wait"]
    /\ lch' = [lch EXCEPT ![l] = ch]
    /\ lcur' = [lcur EXCEPT ![l] = 0]
    /\ lh' = [lh EXCEPT ![l] = 0]
    /\ llog' = [llog EXCEPT ![l] = <<>>]

\* Outcomes of the broker calls of Subscribe() and resubscribe().
BindOutcomes == {"ok", "bind_failed", "consume_failed"}

\* Subscribe(): "if len(c.handlers) == 1" decides whether Consume is called.
SubscribeConsumes(h) == Cardinality(Routes(h)) = 1

SubscribeLive_ChannelOnly == c_channel # 0

\* Subscribe(): the negation of "if !c.connected || c.channel == nil".
SubscribeLive == c_connected /\ c_channel # 0

\* What Subscribe(k, h) returns when the broker answers with outcome.
SubscribeResult(k, h, outcome) ==
    LET hs == [handlers EXCEPT ![k] = h]
        bindOk == ChanOpen(c_channel) /\ outcome # "bind_failed"
    IN IF ~SubscribeLive THEN "nil"
       ELSE IF ~bindOk THEN "err_bind"
       ELSE IF SubscribeConsumes(hs) /\ outcome = "consume_failed" THEN "err_consume"
       ELSE "nil"

\* Consumer.Subscribe(routingKey, handler), under the write lock.
C_Subscribe(k, h, outcome) ==
    LET hs == [handlers EXCEPT ![k] = h]
        ch == c_channel
        live == SubscribeLive
        bindOk == ChanOpen(ch) /\ outcome # "bind_failed"
        consume == live /\ bindOk /\ SubscribeConsumes(hs)
        consumeOk == outcome # "consume_failed"
        res == SubscribeResult(k, h, outcome)
    IN
    /\ UNCHANGED pvars
    /\ c_mu_w = 0
    /\ consume /\ consumeOk => FreeLoops # {}
    /\ handlers' = hs
    /\ IF live /\ bindOk
       THEN /\ c_bound' = c_bound \cup {k}
            /\ q_bindings' = q_bindings \cup {k}
       ELSE UNCHANGED <<c_bound, q_bindings>>
    /\ IF res # "nil"
       THEN c_conn' = ChannelException(c_conn, ch)
       ELSE UNCHANGED c_conn
    /\ IF consume /\ consumeOk
       THEN StartLoop(ch)
       ELSE UNCHANGED cloops
    /\ UNCHANGED <<cfields, ctasks, cmsgs>>

ResubscribeRoutes_NewOnly == Routes(handlers) \ q_bindings

\* resubscribe(): routes := the keys of c.handlers
ResubscribeRoutes == Routes(handlers)

\* resubscribe(), under the read lock: bind every registered route, Consume,
\* go c.handleDeliveries.  done is the set of routes bound before a bind failed.
C_Resubscribe(t, outcome, done) ==
    LET ch == c_channel
        live == c_connected /\ c_channel # 0
        routes == ResubscribeRoutes
        bindOk == ChanOpen(ch) /\ (outcome # "bind_failed" \/ routes = {})
        ok == live /\ bindOk /\ outcome # "consume_failed"
        bound == IF bindOk THEN routes ELSE IF ChanOpen(ch) THEN done ELSE {}
    IN
    /\ UNCHANGED pvars
    /\ UNCHANGED c_rspawned
    /\ c_rpc[t] = "resub"
    /\ c_mu_w = 0
    /\ done \subseteq routes /\ (done # routes \/ routes = {})
    /\ ok => FreeLoops # {}
    /\ IF live
       THEN /\ c_bound' = c_bound \cup bound
            /\ q_bindings' = q_bindings \cup bound
       ELSE UNCHANGED <<c_bound, q_bindings>>
    /\ IF live /\ ~ok
       THEN c_conn' = ChannelException(c_conn, ch)
       ELSE UNCHANGED c_conn
    /\ IF ok THEN StartLoop(ch) ELSE UNCHANGED cloops
    /\ c_rpc' = [c_rpc EXCEPT ![t] = IF ok THEN "defer" ELSE "resubfail"]
    /\ UNCHANGED <<cfields, handlers, c_wpc, c_rbackoff, c_mu_w, cmsgs>>

\* --------------------------------------------------------- dispatch loop

\* The loop that holds message m unacknowledged.
Holder(m) ==
    {l \in Loops : lpc[l] \in {"got", "looked", "handler", "ack"} /\ lcur[l] = m}

\* json.Unmarshal(delivery.Body, &envelope) succeeds.
Decodable(body) == body = "envelope"

\* handler, ok := c.handlers[delivery.RoutingKey]: the handler, 0 when !ok.
LookupHandler(rk) == IF rk \in BindingKeys THEN handlers[rk] ELSE 0

\* A service publishes a message; the exchange routes it to the queue when a
\* binding of the queue matches its routing key.
BrokerRoute(m, rk, body) ==
    /\ UNCHANGED pvars
    /\ m_stat[m] = "unpublished"
    /\ \A n \in Msgs : n < m => m_stat[n] # "unpublished"
    /\ \E b \in q_bindings : TopicMatch(b, rk)
    /\ m_stat' = [m_stat EXCEPT ![m] = "ready"]
    /\ m_rk' = [m_rk EXCEPT ![m] = rk]
    /\ m_body' = [m_body EXCEPT ![m] = body]
    /\ UNCHANGED <<cfields, handlers, cbroker, ctasks, cloops, m_count, m_rets, rtvars>>

\* for delivery := range deliveries: the broker delivers a ready message to a
\* consumer with no unacknowledged delivery (prefetch 1) and the loop takes it.
L_Take(l, m) ==
    /\ UNCHANGED pvars
    /\ lpc[l] = "wait"
    /\ ChanOpen(lch[l])
    /\ m_stat[m] = "ready"
    /\ m_count[m] < MaxDeliveries
    /\ m_stat' = [m_stat EXCEPT ![m] = "unacked"]
    /\ m_count' = [m_count EXCEPT ![m] = @ + 1]
    /\ lpc' = [lpc EXCEPT ![l] = "got"]
    /\ lcur' = [lcur EXCEPT ![l] = m]
    /\ lh' = [lh EXCEPT ![l] = 0]
    /\ llog' = [llog EXCEPT ![l] = <<>>]
    /\ UNCHANGED <<cfields, handlers, cbroker, ctasks, lch, m_rk, m_body, m_rets, rtvars>>

\* The effect on the broker of delivery.Ack / delivery.Nack by loop l: none
\* when the channel is closed (the call returns an error, which is ignored).
Settle(l, to) ==
    IF ChanOpen(lch[l]) /\ m_stat[lcur[l]] = "unacked"
    THEN [m_stat EXCEPT ![lcur[l]] = to]
    ELSE m_stat

Dispatch_NoDecodeCheck(found, body) == IF found = 0 THEN "nack_drop" ELSE "call"

Dispatch_RequeueUnknown(found, body) ==
    IF found = 0 THEN "nack_requeue"
    ELSE IF body # "envelope" THEN "nack_drop"
    ELSE "call"

\* What the loop does with a delivery after the lookup returned found (0 when
\* !ok): "if !ok", json.Unmarshal.  "call" when the handler is to be invoked,
\* else the Nack issued.
Dispatch(found, body) ==
    IF found = 0 THEN "nack_drop"
    ELSE IF ~Decodable(body) THEN "nack_drop"
    ELSE "call"

\* handleDeliveries: handler, ok := c.handlers[delivery.RoutingKey] between
\* RLock and RUnlock; the result stays in the loop's local variables.
L_Lookup(l) ==
    /\ UNCHANGED pvars
    /\ lpc[l] = "got"
    /\ c_mu_w = 0
    /\ lpc' = [lpc EXCEPT ![l] = "looked"]
    /\ lh' = [lh EXCEPT ![l] = LookupHandler(m_rk[lcur[l]])]
    /\ UNCHANGED <<cfields, handlers, cbroker, ctasks, lch, lcur, llog, cmsgs>>

\* handleDeliveries, after RUnlock and without the lock: "if !ok", decode, and
\* either Nack(false, false) and continue or the handler call.
L_Dispatch(l) ==
    LET m == lcur[l]
        what == Dispatch(lh[l], m_body[m])
    IN
    /\ UNCHANGED pvars
    /\ lpc[l] = "looked"
    /\ llog' = [llog EXCEPT ![l] = Append(@, what)]
    /\ IF what = "call"
       THEN /\ lpc' = [lpc EXCEPT ![l] = "handler"]
            /\ UNCHANGED m_stat
       ELSE /\ lpc' = [lpc EXCEPT ![l] = "wait"]
            /\ m_stat' = Settle(l, IF what = "nack_requeue" THEN "ready" ELSE "dropped")
    /\ UNCHANGED <<cfields, handlers, cbroker, ctasks, lch, lcur, lh, m_rk, m_body,
                   m_count, m_rets, rtvars>>

\* The handler returns nil or an error.
L_HandlerReturn(l, err) ==
    /\ UNCHANGED pvars
    /\ lpc[l] = "handler"
    /\ lpc' = [lpc EXCEPT ![l] = "ack"]
    /\ llog' = [llog EXCEPT ![l] = Append(@, IF err THEN "ret_err" ELSE "ret_nil")]
    /\ m_rets' = [m_rets EXCEPT ![lcur[l]] = Append(@, IF err THEN "ret_err" ELSE "ret_nil")]
    /\ UNCHANGED <<cfields, handlers, cbroker, ctasks, lch, lcur, lh, m_stat, m_rk,
                   m_body, m_count, rtvars>>

AckDecision_DropOnError(err) == IF err THEN "nack_drop" ELSE "ack"

AckDecision_AlwaysAck(err) == "ack"

AckDecision_MaxAttempts(err) ==
    IF ~err THEN "ack"
    ELSE IF \E l \in Loops : lpc[l] = "ack" /\ m_count[lcur[l]] >= 2 THEN "nack_drop"
    ELSE "nack_requeue"

\* if err != nil { delivery.Nack(false, true) } else { delivery.Ack(false) }
AckDecision(err) == IF err THEN "nack_requeue" ELSE "ack"

\* handleDeliveries: the acknowledgment after the handler returned.
L_Ack(l) ==
    LET dec == AckDecision(llog[l][Len(llog[l])] = "ret_err") IN
    /\ UNCHANGED pvars
    /\ lpc[l] = "ack"
    /\ lpc' = [lpc EXCEPT ![l] = "wait"]
    /\ llog' = [llog EXCEPT ![l] = Append(@, dec)]
    /\ m_stat' = Settle(l, CASE dec = "ack" -> "acked"
                              [] dec = "nack_requeue" -> "ready"
                              [] OTHER -> "dropped")
    /\ UNCHANGED <<cfields, handlers, cbroker, ctasks, lch, lcur, lh, m_rk, m_body,
                   m_count, m_rets, rtvars>>

\* The deliveries channel is closed with the channel: the range loop ends.
L_Exit(l) ==
    /\ UNCHANGED pvars
    /\ lpc[l] = "wait"
    /\ ~ChanOpen(lch[l])
    /\ lpc' = [lpc EXCEPT ![l] = "none"]
    /\ lch' = [lch EXCEPT ![l] = 0]
    /\ lcur' = [lcur EXCEPT ![l] = 0]
    /\ lh' = [lh EXCEPT ![l] = 0]
    /\ llog' = [llog EXCEPT ![l] = <<>>]
    /\ UNCHANGED <<cfields, handlers, cbroker, ctasks, cmsgs>>

\* The broker requeues a message left unacknowledged on a closed channel.
BrokerRequeue(m) ==
    /\ UNCHANGED pvars
    /\ m_stat[m] = "unacked"
    /\ \A l \in Holder(m) : ~ChanOpen(lch[l])
    /\ m_stat' = [m_stat EXCEPT ![m] = "ready"]
    /\ UNCHANGED <<cfields, handlers, cbroker, ctasks, cloops, m_rk, m_body,
                   m_count, m_rets, rtvars>>

C_Lifecycle ==
    \/ \E c \in Conns : C_BrokerDrop(c)
    \/ \E c \in Conns : C_WatcherClosed(c)
    \/ \E c \in Conns : C_WatcherStopped(c)
    \/ C_ReconnectGuard
    \/ \E t \in RTasks : C_ReconnectCheck(t)
    \/ \E t \in RTasks : C_ReconnectLock(t)
    \/ \E t \in RTasks, o \in ConnectOutcomes : C_ConnectDial(t, o)
    \/ \E t \in RTasks, o \in BindOutcomes, done \in SUBSET BindingKeys :
          C_Resubscribe(t, o, done)
    \/ \E t \in RTasks : C_ResubscribeFailed(t)
    \/ \E t \in RTasks : C_ReconnectDefer(t)
    \/ C_Close
    \/ \E l \in Loops : L_Exit(l)
    \/ \E k \in BindingKeys, o \in BindOutcomes : C_Subscribe(k, 1, o)

C_Dispatching ==
    \/ \E m \in Msgs, rk \in RoutingKeys, b \in Bodies : BrokerRoute(m, rk, b)
    \/ \E l \in Loops, m \in Msgs : L_Take(l, m)
    \/ \E l \in Loops : L_Lookup(l)
    \/ \E l \in Loops : L_Dispatch(l)
    \/ \E l \in Loops, err \in BOOLEAN : L_HandlerReturn(l, err)
    \/ \E l \in Loops : L_Ack(l)
    \/ \E m \in Msgs : BrokerRequeue(m)

\* Subscribe calls (one handler), deliveries and the end of a connection,
\* without reconnects.
C_Serving ==
    \/ \E k \in BindingKeys, o \in BindOutcomes : C_Subscribe(k, 1, o)
    \/ \E c \in Conns : C_BrokerDrop(c)
    \/ \E c \in Conns : C_WatcherClosed(c)
    \/ \E c \in Conns : C_WatcherStopped(c)
    \/ C_Close
    \/ \E l \in Loops : L_Exit(l)
    \/ C_Dispatching

\* One message on a Consumer that loses its connection and reconnects: every
\* broker call of Subscribe and of the reconnect succeeds while the connection
\* it uses is up.
C_Redelivering ==
    \/ \E k \in BindingKeys : C_Subscribe(k, 1, "ok")
    \/ \E c \in Conns : C_BrokerDrop(c)
    \/ \E c \in Conns : C_WatcherClosed(c)
    \/ C_ReconnectGuard
    \/ \E t \in RTasks : C_ReconnectCheck(t)
    \/ \E t \in RTasks : C_ReconnectLock(t)
    \/ \E t \in RTasks : C_ConnectDial(t, "ok")
    \/ \E t \in RTasks : C_Resubscribe(t, "ok", {})
    \/ \E t \in RTasks : C_ResubscribeFailed(t)
    \/ \E t \in RTasks : C_ReconnectDefer(t)
    \/ \E l \in Loops : L_Exit(l)
    \/ \E rk \in RoutingKeys, b \in Bodies : BrokerRoute(1, rk, b)
    \/ \E l \in Loops : L_Take(l, 1)
    \/ \E l \in Loops : L_Lookup(l)
    \/ \E l \in Loops : L_Dispatch(l)
    \/ \E l \in Loops, err \in BOOLEAN : L_HandlerReturn(l, err)
    \/ \E l \in Loops : L_Ack(l)
    \/ BrokerRequeue(1)

\* Subscribe calls with either handler and the end of a connection.
C_Subscribing ==
    \/ \E k \in BindingKeys, h \in Handlers, o \in BindOutcomes : C_Subscribe(k, h, o)
    \/ \E c \in Conns : C_BrokerDrop(c)
    \/ \E c \in Conns : C_WatcherClosed(c)
    \/ \E c \in Conns : C_WatcherStopped(c)
    \/ C_Close
    \/ \E l \in Loops : L_Exit(l)

\* ------------------------------------------- one event, end to end
\* A Go integer v is the pair hi, lo with v = hi * 2^30 + lo and 0 <= lo < 2^30.
LoBase == 2^30

\* float64 has a 53-bit significand: every integer below 2^53 (hi < 2^23) is
\* a float64.
ExactHi == 2^23

\* Payloads given to PublishEvent: int64 values around 0, 2^30 and 2^53, and a
\* string.
Payloads ==
    {<<"int", h, l>> : h \in {0, 1, ExactHi, ExactHi + 1}, l \in 0..4}
        \cup {<<"string", "North">>}

\* json.Marshal of the payload inside the envelope: an integer is written
\* with all its digits, a string as a JSON string.
MarshalPayload(v) ==
    IF v[1] = "int" THEN <<"number", v[2], v[3]>> ELSE <<"jstring", v[2]>>

\* json.Marshal(envelope) in PublishEventWithConfig.
MarshalEnvelope(key, payload) ==
    [event_type |-> key, payload |-> MarshalPayload(payload)]

\* The distance between neighbouring float64 values at hi * 2^30.
RECURSIVE Spacing(_)
Spacing(hi) == IF hi < ExactHi THEN 1 ELSE 2 * Spacing(hi \div 2)

\* strconv.ParseFloat of an integer literal: the nearest float64, a tie going
\* to the even significand.
ToFloat64(hi, lo) ==
    LET sp == Spacing(hi)
        r == lo % sp
        down == lo - r
        up == down + sp
        pick == IF 2 * r < sp THEN down
                ELSE IF 2 * r > sp THEN up
                ELSE IF down % (2 * sp) = 0 THEN down ELSE up
    IN IF pick = LoBase THEN <<hi + 1, 0>> ELSE <<hi, pick>>

\* json.Unmarshal into EventEnvelope.Payload, an interface{}: a JSON number
\* becomes a float64, a JSON string a string.
UnmarshalGeneric(j) ==
    IF j[1] = "number"
    THEN <<"float64", ToFloat64(j[2], j[3])[1], ToFloat64(j[2], j[3])[2]>>
    ELSE <<"string", j[2]>>

\* json.Marshal(envelope.Payload) in handleDeliveries: an integral float64
\* below 1e21 is written with all its digits.
MarshalGeneric(g) ==
    IF g[1] = "float64" THEN <<"number", g[2], g[3]>> ELSE <<"jstring", g[2]>>

\* No event is followed end to end.
RT_Off ==
    /\ rt_pc = "off" /\ rt_key = <<>> /\ rt_payload = <<>>
    /\ rt_wire = <<>> /\ rt_evt = <<>> /\ rt_out = <<>>

\* PublishEvent(K, P) is about to be called.
RT_Start ==
    /\ rt_pc = "start"
    /\ rt_key \in RoutingKeys
    /\ rt_payload \in Payloads
    /\ rt_wire = <<>> /\ rt_evt = <<>> /\ rt_out = <<>>

\* PublishEventWithConfig on a connected Publisher: wrap, json.Marshal,
\* channel.Publish.
RT_Publish ==
    /\ rt_pc = "start"
    /\ p_channel # 0 /\ p_conn[p_channel] = "open"
    /\ rt_wire' = MarshalEnvelope(rt_key, rt_payload)
    /\ rt_pc' = "wire"
    /\ UNCHANGED <<pvars, cfields, handlers, cbroker, ctasks, cloops, m_stat, m_rk,
                   m_body, m_count, m_rets, rt_key, rt_payload, rt_evt, rt_out>>

\* handleDeliveries with a handler registered for the key: json.Unmarshal of
\* the envelope, json.Marshal of its payload, event_type into the context, the
\* handler call.
RT_Dispatch ==
    /\ rt_pc = "wire"
    /\ rt_evt' = rt_wire.event_type
    /\ rt_out' = MarshalGeneric(UnmarshalGeneric(rt_wire.payload))
    /\ rt_pc' = "handed"
    /\ UNCHANGED <<pvars, cfields, handlers, cbroker, ctasks, cloops, m_stat, m_rk,
                   m_body, m_count, m_rets, rt_key, rt_payload, rt_wire>>

RT_Next == RT_Publish \/ RT_Dispatch

\* ------------------------------------------------------- specifications
InitPublisher == P_Init /\ C_InitNoUrl /\ RT_Off
InitConsumer == C_Init /\ P_InitNoUrl /\ RT_Off
\* A connected Publisher and a connected Consumer of the same exchange.
InitRoundTrip ==
    /\ P_InitUrl /\ p_connected
    /\ C_InitUrl /\ c_connected
    /\ RT_Start

\* The Publisher, beside a Consumer built with an empty URL.
SpecPublisher == InitPublisher /\ [][P_Next]_vars

\* The Consumer's connection lifecycle (connect, reconnect, Subscribe with one
\* handler, Close), beside a Publisher built with an empty URL; no message
\* reaches the queue.
SpecConsumer == InitConsumer /\ [][C_Lifecycle]_vars

\* One instance of the library, a Publisher or a Consumer, through its
\* connection lifecycle: the instance that was built with a URL takes the
\* steps, the other stays as built with an empty URL.
PC_Next ==
    \/ ~c_url /\ P_Next
    \/ ~p_url /\ C_Lifecycle

InitInstance == InitPublisher \/ InitConsumer
SpecInstance == InitInstance /\ [][PC_Next]_vars

\* The Consumer serving deliveries on the connection NewConsumer opened.
SpecDispatch == InitConsumer /\ [][C_Serving]_vars

\* The Consumer serving one message across reconnects, from the connection
\* NewConsumer opened.
InitRedelivery == C_InitUrl /\ c_connected /\ P_InitNoUrl /\ RT_Off
SpecRedelivery == InitRedelivery /\ [][C_Redelivering]_vars

\* Subscribe calls on the connection NewConsumer opened.
SpecSubscribe == InitConsumer /\ [][C_Subscribing]_vars

\* Every goroutine of the Consumer that can take a step eventually takes one:
\* the Go scheduler runs each runnable goroutine, a sleep ends, a broker call
\* returns, and the mutex is handed to each waiter.
C_Fairness ==
    /\ WF_vars(C_ReconnectGuard)
    /\ \A t \in RTasks :
          /\ WF_vars(C_ReconnectCheck(t))
          /\ WF_vars(C_ReconnectLock(t))
          /\ WF_vars(\E o \in ConnectOutcomes : C_ConnectDial(t, o))
          /\ WF_vars(\E o \in BindOutcomes, done \in SUBSET BindingKeys :
                        C_Resubscribe(t, o, done))
          /\ WF_vars(C_ResubscribeFailed(t))
          /\ WF_vars(C_ReconnectDefer(t))

\* The Consumer's connection lifecycle under fair scheduling.
SpecConsumerFair == InitConsumer /\ [][C_Lifecycle]_vars /\ C_Fairness

\* One event from PublishEvent to the handler.
SpecRoundTrip == InitRoundTrip /\ [][RT_Next]_vars

\* =============================================================== claims

\* The dispatch loops alive on channel ch.
LoopsOn(ch) == {l \in Loops : lpc[l] # "none" /\ lch[l] = ch}

\* C1 (as stated): PublishEvent returns a non-nil error only when the payload
\* cannot be serialized; a call with an encodable payload returns nil in every
\* state of the Publisher, a broker outage after a successful connect included.
C1_PublishFailsOnlyOnSerialization ==
    (pub_pc = "idle" /\ pub_enc) => pub_result \in {"none", "nil"}

\* C2 (as stated): once Publisher.Close() has returned, connected stays false
\* and no reconnect loop dials any more.
C2_PublisherCloseIsTerminal ==
    p_closed => (~p_connected /\ \A t \in RTasks : p_rpc[t] # "dial")

\* C3 (as stated): once Consumer.Close() has returned, connected is false and
\* no new connection or channel is installed.
C3_ConsumerCloseIsTerminal ==
    c_stopped => (~c_connected /\ c_connection = 0 /\ c_channel = 0)

\* C4 (as stated): there is no state in which a Publisher built with a URL is
\* neither connected nor closed while no reconnect goroutine exists and no
\* watcher has a close notification left to handle.
C4_NoLostReconnect ==
    (p_url /\ ~p_closed /\ ~p_connected) =>
        \/ p_rspawned > 0
        \/ \E t \in RTasks : p_rpc[t] # "none"
        \/ \E c \in Conns : p_wpc[c] = "wait" /\ p_conn[c] # "open"

\* C5: whenever resubscribe() returns nil in a reconnect loop, every routing
\* key of the handler registry has been bound through the channel now in
\* c.channel, and a new handleDeliveries goroutine consumes from that channel.
C5_ReconnectRebindsWholeRegistry ==
    [][\A t \in RTasks :
          (c_rpc[t] = "resub" /\ c_rpc'[t] = "defer") =>
              /\ c_channel' # 0
              /\ Routes(handlers') \subseteq c_bound'
              /\ \E l \in Loops :
                    lpc[l] = "none" /\ lpc'[l] = "wait" /\ lch'[l] = c_channel']_vars

\* C5 witness: a reconnect loop has finished resubscribe() with a registered
\* key that an earlier channel had bound already; the key is bound through the
\* new channel and a loop consumes from it.
C5_Witness ==
    \E t \in RTasks :
        /\ c_rpc[t] = "defer" /\ c_connected /\ ~c_stopped
        /\ c_channel > 1
        /\ Routes(handlers) # {}
        /\ Routes(handlers) \subseteq c_bound
        /\ LoopsOn(c_channel) # {}

\* C6 (as stated): a Subscribe call for a routing key that is registered
\* already replaces the handler and starts no further dispatch loop.
C6_SecondSubscribeStartsNoLoop ==
    [][\A k \in BindingKeys :
          (handlers[k] # 0 /\ \E h \in Handlers, o \in BindOutcomes : C_Subscribe(k, h, o))
              => (handlers'[k] # 0 /\ lpc' = lpc)]_vars

\* C7 (as stated): at most one dispatch loop runs per channel.
C7_OneLoopPerChannel ==
    \A ch \in Conns : Cardinality(LoopsOn(ch)) <= 1

\* C8 (as stated): a delivery whose routing key matches a registered binding
\* pattern when the loop looks its handler up gets a handler, and a decodable
\* delivery that got one is handed to it.
C8_PatternDeliveryReachesHandler ==
    [][\A l \in Loops :
          /\ (/\ lpc[l] = "got" /\ lpc'[l] = "looked"
              /\ \E b \in Routes(handlers) : TopicMatch(b, m_rk[lcur[l]]))
                 => lh'[l] # 0
          /\ (/\ lpc[l] = "looked" /\ lpc'[l] # "looked"
              /\ lh[l] # 0 /\ Decodable(m_body[lcur[l]]))
                 => lpc'[l] = "handler"]_vars

\* C9: for a decodable delivery with a registered handler the loop calls the
\* handler once, then issues one acknowledgment, Ack after nil and
\* Nack(requeue) after an error, and only then waits for the next delivery.
C9_HandlerOnceThenOneAck ==
    \A l \in Loops :
        /\ lpc[l] = "handler" => llog[l] = <<"call">>
        /\ lpc[l] = "ack" => llog[l] \in {<<"call", "ret_nil">>, <<"call", "ret_err">>}
        /\ (lpc[l] = "wait" /\ lcur[l] # 0 /\ lh[l] # 0 /\ Decodable(m_body[lcur[l]])) =>
               llog[l] \in {<<"call", "ret_nil", "ack">>,
                            <<"call", "ret_err", "nack_requeue">>}

\* C9 witness: a loop is back at the range after a handler returned an error
\* and the delivery was negatively acknowledged with requeue.
C9_Witness ==
    \E l \in Loops :
        /\ lpc[l] = "wait" /\ lcur[l] # 0 /\ lh[l] # 0
        /\ llog[l] = <<"call", "ret_err", "nack_requeue">>

\* C10: a delivery whose body is not a JSON envelope never reaches a handler,
\* gets exactly one Nack without requeue, and leaves the loop at the range,
\* ready for the next delivery.
C10_PoisonIsDroppedAndLoopGoesOn ==
    \A l \in Loops :
        (lcur[l] # 0 /\ ~Decodable(m_body[lcur[l]])) =>
            \/ lpc[l] \in {"got", "looked"} /\ llog[l] = <<>>
            \/ lpc[l] = "wait" /\ llog[l] = <<"nack_drop">>

\* C10 witness: the only loop has dropped a poison message and is now inside
\* the handler for a later delivery of the same channel.
C10_Witness ==
    \E l \in Loops, m \in Msgs :
        /\ \A l2 \in Loops : l2 # l => lpc[l2] = "none"
        /\ m_body[m] = "poison" /\ m_stat[m] = "dropped"
        /\ lpc[l] = "handler" /\ lcur[l] # m
        /\ ChanOpen(lch[l])

\* C11 (as stated): a delivery whose routing key has no entry in c.handlers
\* when the loop looks it up gets Nack(false, false) and no handler call, the
\* loop is back at the range, and the message is dropped and never made ready
\* again.
C11_NoHandlerIsDropped ==
    [][/\ \A l \in Loops :
             /\ (lpc[l] = "got" /\ lpc'[l] = "looked"
                    /\ LookupHandler(m_rk[lcur[l]]) = 0) => lh'[l] = 0
             /\ (lpc[l] = "looked" /\ lpc'[l] # "looked" /\ lh[l] = 0) =>
                    /\ lpc'[l] = "wait"
                    /\ llog'[l] = <<"nack_drop">>
                    /\ m_stat'[lcur[l]] = "dropped"
       /\ \A m \in Msgs : m_stat[m] = "dropped" => m_stat'[m] = "dropped"]_vars

\* C11 (amended): a delivery whose routing key has no entry in c.handlers when
\* the loop looks it up gets Nack(false, false) and no handler call, whatever
\* was registered after the lookup, and the loop is back at the range; where
\* the channel is open when the Nack is issued the message is dropped, and a
\* dropped message is never made ready again; where the channel is closed by
\* then the Nack changes nothing at the broker, which keeps the message.
C11_NoHandlerIsDroppedOnOpenChannel ==
    [][/\ \A l \in Loops :
             /\ (lpc[l] = "got" /\ lpc'[l] = "looked"
                    /\ LookupHandler(m_rk[lcur[l]]) = 0) => lh'[l] = 0
             /\ (lpc[l] = "looked" /\ lpc'[l] # "looked" /\ lh[l] = 0) =>
                    /\ lpc'[l] = "wait"
                    /\ llog'[l] = <<"nack_drop">>
                    /\ ChanOpen(lch[l]) => m_stat'[lcur[l]] = "dropped"
                    /\ ~ChanOpen(lch[l]) => m_stat' = m_stat
       /\ \A m \in Msgs : m_stat[m] = "dropped" => m_stat'[m] = "dropped"]_vars

\* C11 witness: a message with no entry in c.handlers was delivered again
\* after the connection of its first delivery was lost, and was dropped by the
\* Nack of the second delivery, on the channel of the reconnect.
C11_Witness ==
    \E l \in Loops, m \in Msgs :
        /\ lcur[l] = m /\ lpc[l] = "wait" /\ lh[l] = 0
        /\ llog[l] = <<"nack_drop">>
        /\ m_body[m] = "envelope" /\ m_stat[m] = "dropped" /\ m_count[m] = 2

\* C12 (as stated): a message whose handler returned an error on its first
\* invocation and nil on its second has been delivered exactly twice and is
\* acknowledged, or is about to be by the loop that holds it; an acknowledged
\* message is never delivered again.
C12_ErrorThenNilIsTwoDeliveries ==
    [][/\ \A m \in Msgs :
             (Len(m_rets'[m]) >= 2 /\ m_rets'[m][1] = "ret_err"
                 /\ m_rets'[m][2] = "ret_nil") =>
                 /\ m_count'[m] = 2
                 /\ \/ m_stat'[m] = "acked"
                    \/ \E l \in Loops : lcur'[l] = m /\ lpc'[l] = "ack"
       /\ \A m \in Msgs :
             m_stat[m] = "acked" => (m_stat'[m] = "acked" /\ m_count'[m] = m_count[m])]_vars

\* C12 (amended): while no connection of the Consumer has been lost or closed,
\* a message whose handler returned an error on its first invocation and nil
\* on its second has been delivered exactly twice and is acknowledged, or is
\* about to be by the loop that holds it.  On an open channel a delivery whose
\* handler returns an error is put back in the queue without a new delivery
\* being counted and a delivery whose handler returns nil is acknowledged; an
\* acknowledged message is never delivered again, and every delivery is a take
\* of a ready message by a loop.
C12_ErrorThenNilIsTwoDeliveriesWhileConnected ==
    [][/\ \A m \in Msgs :
             (/\ \A c \in Conns : c_conn'[c] \in {"open", "unused"}
              /\ Len(m_rets'[m]) >= 2 /\ m_rets'[m][1] = "ret_err"
              /\ m_rets'[m][2] = "ret_nil") =>
                 /\ m_count'[m] = 2 /\ Len(m_rets'[m]) = 2
                 /\ \/ m_stat'[m] = "acked"
                    \/ \E l \in Loops : /\ lcur'[l] = m /\ lpc'[l] = "ack"
                                         /\ llog'[l] = <<"call", "ret_nil">>
       /\ \A l \in Loops :
             (lpc[l] = "ack" /\ lpc'[l] = "wait" /\ ChanOpen(lch[l])) =>
                 LET m == lcur[l] IN
                 /\ llog[l] = <<"call", "ret_err">> =>
                        (m_stat'[m] = "ready" /\ m_count'[m] = m_count[m])
                 /\ llog[l] = <<"call", "ret_nil">> => m_stat'[m] = "acked"
       /\ \A m \in Msgs :
             /\ m_stat[m] = "acked" => (m_stat'[m] = "acked" /\ m_count'[m] = m_count[m])
             /\ m_count'[m] # m_count[m] =>
                    /\ m_count'[m] = m_count[m] + 1
                    /\ m_stat[m] = "ready" /\ m_stat'[m] = "unacked"]_vars

\* C12 witness: with no connection lost or closed, a message whose handler
\* returned an error and then nil has been delivered twice and is acknowledged.
C12_Witness ==
    \E l \in Loops, m \in Msgs :
        /\ \A c \in Conns : c_conn[c] \in {"open", "unused"}
        /\ lcur[l] = m /\ lpc[l] = "wait"
        /\ llog[l] = <<"call", "ret_nil", "ack">>
        /\ m_rets[m] = <<"ret_err", "ret_nil">>
        /\ m_count[m] = 2 /\ m_stat[m] = "acked"

\* C13 (as stated): the handler is invoked with a payload equal to the payload
\* given to PublishEvent, and with event_type equal to the routing key.
C13_RoundTripPreservesPayload ==
    rt_pc = "handed" =>
        (rt_out = MarshalPayload(rt_payload) /\ rt_evt = rt_key)

\* The delay the specification gives for the n-th consecutive attempt of one
\* reconnect loop: min(2^(n-1), 30) seconds.
ClaimedDelay(n) == IF 2^(n - 1) > 30 THEN 30 ELSE 2^(n - 1)

\* C14 (as stated): a reconnect loop of the Publisher or the Consumer sleeps
\* ClaimedDelay(1) before its first attempt, and after every failed attempt,
\* the n-th, its next delay is ClaimedDelay(n + 1).
C14_BackoffSequence ==
    [][\A t \in RTasks :
          /\ (p_rpc[t] = "none" /\ p_rpc'[t] # "none") => p_rbackoff'[t] = ClaimedDelay(1)
          /\ (p_rpc[t] = "dial" /\ p_rpc'[t] = "sleep") =>
                 \E n \in 1..7 : /\ p_rbackoff[t] = ClaimedDelay(n)
                                 /\ p_rbackoff'[t] = ClaimedDelay(n + 1)
          /\ (c_rpc[t] = "none" /\ c_rpc'[t] # "none") => c_rbackoff'[t] = ClaimedDelay(1)
          /\ (c_rpc[t] \in {"dial", "resubfail"} /\ c_rpc'[t] = "check") =>
                 \E n \in 1..7 : /\ c_rbackoff[t] = ClaimedDelay(n)
                                 /\ c_rbackoff'[t] = ClaimedDelay(n + 1)]_vars

\* The reconnect goroutines between setting the guard flag and clearing it.
P_InFlight == {t \in RTasks : p_rpc[t] # "none"}
C_InFlight == {t \in RTasks : c_rpc[t] # "none"}

\* C15: at most one reconnect loop of a Publisher and of a Consumer is between
\* setting reconnecting and clearing it, the flag is set exactly while there
\* is one, and a reconnect call that finds the flag set returns at the guard:
\* it starts no loop and touches nothing else.
C15_OneReconnectLoop ==
    [][/\ Cardinality(P_InFlight) <= 1 /\ Cardinality(P_InFlight') <= 1
       /\ Cardinality(C_InFlight) <= 1 /\ Cardinality(C_InFlight') <= 1
       /\ p_reconnecting' <=> P_InFlight' # {}
       /\ c_reconnecting' <=> C_InFlight' # {}
       /\ (p_rspawned' < p_rspawned /\ p_reconnecting) =>
              UNCHANGED <<p_rpc, p_reconnecting, p_conn, p_connection, p_channel, p_connected>>
       /\ (c_rspawned' < c_rspawned /\ c_reconnecting) =>
              UNCHANGED <<c_rpc, c_reconnecting, c_conn, c_connection, c_channel, c_connected>>]_vars

\* C15 witness: a reconnect loop of the Publisher has connected and has not
\* yet cleared the flag; the connection it made was lost, its watcher started a
\* second reconnect call, and that call has returned at the guard.
C15_Witness ==
    \E t \in RTasks :
        /\ p_rpc[t] = "defer" /\ P_InFlight = {t}
        /\ p_reconnecting /\ ~p_closed
        /\ p_connection # 0 /\ p_wpc[p_connection] = "done"
        /\ p_rspawned = 0

\* C16: a PublishEvent call on a Publisher whose channel is nil returns nil,
\* whatever the payload, goes no further than the nil check (no publish is
\* issued) and leaves connection, channel, connected, reconnecting and the
\* broker side as they were.
C16_NoChannelPublishIsNoOp ==
    [][(p_channel = 0 /\ \E enc \in BOOLEAN : P_PublishCheck(enc)) =>
           /\ pub_result' = "nil"
           /\ pub_pc' = "idle"
           /\ UNCHANGED <<p_connection, p_channel, p_connected, p_reconnecting,
                          p_conn, p_mu_r, p_mu_w>>]_vars

\* C16 witness: the initial dial failed, a reconnect loop is dialing, no
\* channel was ever installed, and a call with a payload that cannot be
\* serialized has returned nil.
C16_Witness ==
    /\ p_url /\ p_channel = 0 /\ ~p_connected
    /\ \E t \in RTasks : p_rpc[t] = "dial"
    /\ pub_pc = "idle" /\ ~pub_enc /\ pub_result = "nil"

\* C17: a Subscribe call on a Consumer that is not connected returns nil,
\* records the handler and issues no broker operation; a Subscribe call returns
\* an error only on a connected Consumer; no step removes a registry entry; and
\* a reconnect loop that finishes has bound every registered key through the
\* channel it installed.
C17_OfflineSubscribeIsKept ==
    [][/\ \A k \in BindingKeys, o \in BindOutcomes :
             C_Subscribe(k, 1, o) =>
                 /\ handlers'[k] = 1
                 /\ (~c_connected \/ c_channel = 0) =>
                        /\ SubscribeResult(k, 1, o) = "nil"
                        /\ UNCHANGED <<cbroker, cloops, cfields>>
                 /\ SubscribeResult(k, 1, o) # "nil" => (c_connected /\ c_channel # 0)
       /\ Routes(handlers) \subseteq Routes(handlers')
       /\ \A t \in RTasks :
             (c_rpc[t] = "resub" /\ c_rpc'[t] = "defer") =>
                 Routes(handlers) \subseteq c_bound']_vars

\* C17 witness: the constructor's connect failed, a key was registered before
\* any connection existed, and the reconnect loop has bound it through the
\* first connection and started the only dispatch loop.
C17_Witness ==
    \E t \in RTasks :
        /\ c_rpc[t] = "defer" /\ c_connected
        /\ c_channel = 1 /\ c_conn[1] = "open"
        /\ \A c \in Conns : c # 1 => c_conn[c] = "unused"
        /\ Cardinality(Routes(handlers)) = 1
        /\ Routes(handlers) \subseteq c_bound
        /\ Cardinality(LoopsOn(1)) = 1
        /\ \A l \in Loops : lpc[l] # "none" => lch[l] = 1

\* C18 (as stated): connect() called by a reconnect loop of a Consumer that is
\* connected returns without dialing and leaves connection, channel, connected
\* and the watchers as they were; and a connect() that succeeds never replaces
\* a connection that is still open.
C18_ConnectNeverReplacesLiveConnection ==
    [][\A t \in RTasks :
          /\ (c_rpc[t] = "sleep" /\ c_rpc'[t] # "sleep" /\ c_connected) =>
                 /\ c_rpc'[t] # "dial"
                 /\ UNCHANGED <<c_connection, c_channel, c_connected, c_wpc, c_conn>>
          /\ (c_rpc[t] = "dial" /\ c_connection' # c_connection) =>
                 (c_connection = 0 \/ c_conn[c_connection] \in {"lost", "closed"})]_vars

\* C19: in a Publisher and in a Consumer connected becomes true only in a
\* connect() all of whose broker calls succeeded, on the connection dialed by
\* that call, which is installed with its channel and its watcher; a connect()
\* in which a call fails leaves connection, channel and connected as they
\* were, leaves no new connection open and arms no watcher, and the loop goes
\* on to its next attempt.  The constructor hands out the instance in either
\* case: connected, or not connected with one reconnect call started.
C19_ConnectedOnlyAfterFullSetup ==
    /\ (p_url /\ ~p_connected) =>
           (p_rspawned = 1 /\ p_connection = 0 /\ p_channel = 0
               /\ \A c \in Conns : p_conn[c] # "open" /\ p_wpc[c] = "none")
    /\ (c_url /\ ~c_connected) =>
           (c_rspawned = 1 /\ c_connection = 0 /\ c_channel = 0
               /\ \A c \in Conns : c_conn[c] # "open" /\ c_wpc[c] = "none")
    /\ [][/\ \A t \in RTasks, o \in ConnectOutcomes :
             /\ P_ConnectDial(t, o) =>
                 /\ (o # "ok") =>
                        /\ UNCHANGED <<p_connection, p_channel, p_connected, p_wpc>>
                        /\ \A c \in Conns : p_conn'[c] = "open" => p_conn[c] = "open"
                        /\ p_rpc'[t] = "sleep"
                 /\ p_connected' =>
                        /\ o = "ok"
                        /\ p_conn[p_connection'] = "unused"
                        /\ p_conn'[p_connection'] = "open"
                        /\ p_channel' = p_connection'
                        /\ p_wpc'[p_connection'] = "wait"
             /\ C_ConnectDial(t, o) =>
                 /\ (o # "ok") =>
                        /\ UNCHANGED <<c_connection, c_channel, c_connected, c_wpc>>
                        /\ \A c \in Conns : c_conn'[c] = "open" => c_conn[c] = "open"
                        /\ c_rpc'[t] = "check"
                 /\ c_connected' =>
                        /\ o = "ok"
                        /\ c_conn[c_connection'] = "unused"
                        /\ c_conn'[c_connection'] = "open"
                        /\ c_channel' = c_connection'
                        /\ c_wpc'[c_connection'] = "wait"
          /\ (p_connected' /\ ~p_connected) =>
                 \E t \in RTasks : p_rpc[t] = "dial" /\ p_rpc'[t] = "defer"
          /\ (c_connected' /\ ~c_connected) =>
                 \E t \in RTasks : c_rpc[t] = "dial" /\ c_rpc'[t] = "resub"]_vars

\* C19 witness: a reconnect attempt of a Publisher that had a connection
\* failed after its dial; the connection it opened is closed and has no
\* watcher, the fields still hold the earlier connection, and the loop is
\* asleep before its next attempt with the delay doubled.
C19_Witness ==
    \E t \in RTasks :
        /\ p_rpc[t] = "sleep" /\ p_rbackoff[t] = 2
        /\ p_connection = 1 /\ p_channel = 1 /\ ~p_connected
        /\ p_conn[2] = "closed" /\ p_wpc[2] = "none"

\* C20 (as stated): the read lock of the Publisher is not held during the
\* broker publish call, the write lock is not held during the dial, and no
\* PublishEvent call waits for the lock while a dial is in progress.
C20_LocksNotHeldOverBrokerCalls ==
    /\ ~(pub_pc = "send" /\ p_mu_r > 0)
    /\ ~(\E t \in RTasks : p_rpc[t] = "dial" /\ p_mu_w = t)
    /\ ~(pub_pc = "rlock" /\ p_mu_w # 0)

\* C21 (as stated): at most one handler invocation is in progress and at most
\* one delivery is unacknowledged per Consumer at any time.
C21_OneHandlerAtATime ==
    /\ Cardinality({l \in Loops : lpc[l] = "handler"}) <= 1
    /\ Cardinality({m \in Msgs : m_stat[m] = "unacked"}) <= 1

\* C22: on a channel that is open, every handler error puts the message back
\* in the queue, however often it was delivered before; a message becomes
\* acknowledged only in the step after a handler returned nil, and dropped only
\* by the Nack that follows a lookup, before any handler call for the delivery;
\* and while no connection has been lost or closed, a message whose handler
\* has returned an error every time is in the queue or held by a loop, never
\* acknowledged and never dropped.
C22_FailingHandlerRequeuesForEver ==
    [][/\ \A l \in Loops :
             (lpc[l] = "ack" /\ lpc'[l] = "wait" /\ ChanOpen(lch[l])
                 /\ llog[l] = <<"call", "ret_err">>) =>
                 /\ llog'[l] = <<"call", "ret_err", "nack_requeue">>
                 /\ m_stat'[lcur[l]] = "ready"
       /\ \A m \in Msgs :
             /\ (m_stat[m] # "acked" /\ m_stat'[m] = "acked") =>
                    \E l \in Loops : lcur[l] = m /\ llog[l] = <<"call", "ret_nil">>
             /\ (m_stat[m] # "dropped" /\ m_stat'[m] = "dropped") =>
                    \E l \in Loops : lcur[l] = m /\ lpc[l] = "looked" /\ llog[l] = <<>>
             /\ (/\ \A c \in Conns : c_conn'[c] \in {"open", "unused"}
                 /\ m_rets'[m] # <<>>
                 /\ \A i \in 1..Len(m_rets'[m]) : m_rets'[m][i] = "ret_err") =>
                    /\ m_stat'[m] \in {"ready", "unacked"}
                    /\ m_stat'[m] = "unacked" =>
                           \E l \in Loops : lcur'[l] = m /\ lpc'[l] # "wait"]_vars

\* C22 witness: with no connection lost, a message has been delivered
\* MaxDeliveries times, its handler has returned an error each time, and it
\* is in the queue again.
C22_Witness ==
    \E l \in Loops, m \in Msgs :
        /\ \A c \in Conns : c_conn[c] \in {"open", "unused"}
        /\ \A l2 \in Loops : l2 # l => lpc[l2] = "none"
        /\ lcur[l] = m /\ lpc[l] = "wait"
        /\ llog[l] = <<"call", "ret_err", "nack_requeue">>
        /\ Len(m_rets[m]) = MaxDeliveries
        /\ \A i \in 1..MaxDeliveries : m_rets[m][i] = "ret_err"
        /\ m_count[m] = MaxDeliveries /\ m_stat[m] = "ready"

\* C23: under fair scheduling, once Close() has set stopped, the Consumer
\* reaches a state in which no reconnect loop is between the guard and its
\* deferred function and reconnecting is false, whatever the broker answers.
C23_ReconnectLoopEndsAfterClose ==
    c_stopped ~> (C_InFlight = {} /\ ~c_reconnecting)

\* C23 witness: a reconnect loop that was running when Close() was called
\* went through connect() once more (Close() had set the connection to nil)
\* and has ended.
C23_Witness ==
    /\ c_stopped /\ c_connection # 0
    /\ C_InFlight = {} /\ ~c_reconnecting

\* The connections the Consumer dialed that neither side has closed.
C_OpenConns == {c \in Conns : c_conn[c] \in {"open", "chanerr"}}

\* C24 (as stated): after every step the Consumer has at most one open
\* connection and it is c.connection (every other connection it dialed is
\* closed), also when resubscribe() failed and the loop dials again; and the
\* watcher of a connection that is no longer c.connection does not clear
\* connected while c.connection is open.
C24_AtMostOneOpenConnection ==
    [][/\ Cardinality(C_OpenConns') <= 1
       /\ \A c \in C_OpenConns' : c_connection' = c
       /\ \A c \in Conns :
             (/\ c_wpc[c] = "wait" /\ c_wpc'[c] = "done"
              /\ c # c_connection /\ c_connection # 0
              /\ c_conn[c_connection] = "open" /\ c_connected) => c_connected']_vars

\* C25 (as stated): when Subscribe on a connected Consumer returns nil, a
\* dispatch loop is consuming from the current channel at its return, whatever
\* earlier Subscribe calls returned.
C25_NilSubscribeMeansConsuming ==
    [][\A k \in BindingKeys, h \in Handlers, o \in BindOutcomes :
          (/\ C_Subscribe(k, h, o)
           /\ SubscribeLive
           /\ SubscribeResult(k, h, o) = "nil") =>
              \E l \in Loops : lpc'[l] # "none" /\ lch'[l] = c_channel']_vars

\* C26 (as stated): a Subscribe(K, h) that returns an error leaves the registry
\* as it was before the call.
C26_FailedSubscribeLeavesRegistry ==
    [][\A k \in BindingKeys, h \in Handlers, o \in BindOutcomes :
          (C_Subscribe(k, h, o) /\ SubscribeResult(k, h, o) # "nil") =>
              handlers' = handlers]_vars

\* C27 (as stated): while no routing key is registered the Consumer has no
\* dispatch loop: neither the constructor nor reconnect() nor resubscribe()
\* starts one.
C27_EmptyRegistryNeverConsumes ==
    Routes(handlers) = {} => \A l \in Loops : lpc[l] = "none"

\* C28 (as stated): connected, connection and channel of a Publisher or a
\* Consumer never change one without the others.
C28_FieldsChangeTogether ==
    [][/\ (c_connected' # c_connected \/ c_connection' # c_connection
              \/ c_channel' # c_channel) =>
             (c_connected' # c_connected /\ c_connection' # c_connection
                 /\ c_channel' # c_channel)
       /\ (p_connected' # p_connected \/ p_connection' # p_connection
              \/ p_channel' # p_channel) =>
             (p_connected' # p_connected /\ p_connection' # p_connection
                 /\ p_channel' # p_channel)]_vars

\* C28 (amended): in every state connected = true implies that connection and
\* channel are set and come from the same connect(); connection and channel
\* are assigned in the same step; connected alone may become false.
C28_ConnectedImpliesInstalled ==
    [][/\ c_connected => (c_connection # 0 /\ c_channel = c_connection)
       /\ p_connected => (p_connection # 0 /\ p_channel = p_connection)
       /\ c_connected' => (c_connection' # 0 /\ c_channel' = c_connection')
       /\ p_connected' => (p_connection' # 0 /\ p_channel' = p_connection')
       /\ (c_connection' # c_connection) <=> (c_channel' # c_channel)
       /\ (p_connection' # p_connection) <=> (p_channel' # p_channel)
       /\ (c_connected' # c_connected /\ UNCHANGED <<c_connection, c_channel>>) =>
             ~c_connected'
       /\ (p_connected' # p_connected /\ UNCHANGED <<p_connection, p_channel>>) =>
             ~p_connected']_vars

\* C28 witness: in a Publisher the watcher of an earlier connection has
\* cleared connected and a later connect() has installed connection, channel
\* and connected = true.
C28_Witness ==
    /\ p_connected /\ p_connection # 0 /\ p_channel = p_connection
    /\ \E c \in Conns : c # p_connection /\ p_wpc[c] = "done"

\* C29: stopChan is closed exactly once, by the Close() that sets stopped, and
\* a Close() of a stopped Consumer changes nothing, whatever the other
\* goroutines did in between.
C29_CloseIsIdempotent ==
    [][/\ c_stopChan' # "panic"
       /\ c_stopped' <=> (c_stopChan' = "closed")
       /\ (c_stopChan' # c_stopChan \/ c_stopped' # c_stopped) =>
             (C_Close /\ ~c_stopped /\ c_stopChan = "open")
       /\ (C_Close /\ c_stopped) => UNCHANGED vars]_vars

\* C29 witness: Close() has run, a reconnect loop has installed a connection
\* since, and the lock is free: a second Close() can be called and would have
\* a connection to close.
C29_Witness ==
    /\ c_stopped /\ c_stopChan = "closed"
    /\ c_connection # 0 /\ c_conn[c_connection] = "open" /\ c_connected
    /\ c_mu_w = 0

\* C30: Publisher.channel, once set, is never nil again, so a PublishEvent
\* call that passed the nil check reaches channel.Publish with a channel that
\* is not nil, whatever connect(), reconnect() and Close() did in between.
C30_PublishNeverUsesNilChannel ==
    [][/\ p_channel # 0 => p_channel' # 0
       /\ pub_pc' \in {"rlock", "send"} => p_channel' # 0
       /\ pub_result' # "panic"]_vars

\* C30 witness: Close() has run, before or after the nil check of a
\* PublishEvent call, and the call published on the closed channel, which is
\* not nil, and returned the publish error.
C30_Witness ==
    /\ pub_pc = "idle" /\ pub_result = "err_publish"
    /\ p_closed /\ p_channel # 0 /\ p_conn[p_channel] = "closed"

====
